---- MODULE Spec2Model ----
(***************************************************************************)
(* use-color-luminance: colorLuminance, contrast and the module-level      *)
(* CACHE of src/useColorLuminance.ts.                                      *)
(*                                                                         *)
(* Strings are sequences of one-character strings.  A JavaScript number is *)
(* a record [k, m, e]: k = "num" stands for m * 10^-e (m carries no        *)
(* trailing zero when e > 0), k = "nan" for NaN.  Floating-point           *)
(* arithmetic of the luminance is carried out in fixed point: channel      *)
(* values with four decimals, luminances with eight.                       *)
(***************************************************************************)
EXTENDS Integers, Sequences, FiniteSets, TLC

VARIABLES CACHE, last, calls

vars == <<CACHE, last, calls>>

(***************************************************************************)
(* Numbers                                                                 *)
(***************************************************************************)
Pow10(n) == 10 ^ n

RECURSIVE Norm(_, _)
\* m * 10^-e without trailing zeros in the fraction.
Norm(m, e) ==
  IF e > 0 /\ m % 10 = 0 THEN Norm(m \div 10, e - 1)
  ELSE [k |-> "num", m |-> m, e |-> e]

Whole(n) == [k |-> "num", m |-> n, e |-> 0]

NaN == [k |-> "nan", m |-> 0, e |-> 0]

\* The value of a property that is not a number (a function inherited from
\* Object.prototype) and the value of a missing property.
FunctionValue == [k |-> "fn", m |-> 0, e |-> 0]

Undefined == [k |-> "undefined", m |-> 0, e |-> 0]

IsNaN(x) == x.k = "nan"

\* x < n and x > n for an integer n; every comparison with NaN is false.
LtInt(x, n) ==
  /\ x.k = "num"
  /\ \/ x.m < 0 /\ n >= 0
     \/ x.m >= 0 /\ n > 0 /\ x.m \div Pow10(x.e) < n

GtInt(x, n) ==
  /\ x.k = "num"
  /\ x.m >= 0
  /\ n >= 0
  /\ \/ x.m \div Pow10(x.e) > n
     \/ x.m \div Pow10(x.e) = n /\ x.m % Pow10(x.e) > 0

\* JavaScript's ToBoolean on the values a CACHE lookup can give.
Truthy(x) ==
  \/ x.k = "fn"
  \/ x.k = "num" /\ x.m # 0

(***************************************************************************)
(* Characters and Number.prototype.toString                                *)
(***************************************************************************)
Digits == <<"0", "1", "2", "3", "4", "5", "6", "7", "8", "9">>

IsDigit(ch) == ch \in {"0", "1", "2", "3", "4", "5", "6", "7", "8", "9"}

DigitValue(ch) == (CHOOSE i \in 1..10 : Digits[i] = ch) - 1

HexLower == <<"a", "b", "c", "d", "e", "f">>

HexUpper == <<"A", "B", "C", "D", "E", "F">>

IsHexDigit(ch) ==
  \/ IsDigit(ch)
  \/ \E i \in 1..6 : HexLower[i] = ch \/ HexUpper[i] = ch

HexValue(ch) ==
  IF IsDigit(ch) THEN DigitValue(ch)
  ELSE 9 + (CHOOSE i \in 1..6 : HexLower[i] = ch \/ HexUpper[i] = ch)

IsWhiteSpace(ch) == ch \in {" ", "\t", "\n"}

RECURSIVE DecStr(_)
\* The decimal digits of a natural number.
DecStr(n) ==
  IF n < 10 THEN <<Digits[n + 1]>>
  ELSE Append(DecStr(n \div 10), Digits[(n % 10) + 1])

RECURSIVE PadLeft(_, _)
PadLeft(s, n) == IF Len(s) >= n THEN s ELSE PadLeft(<<"0">> \o s, n)

\* Number::toString(x) for radix 10: decimal notation from 1e-6 on,
\* exponent notation below it.
NumberToString(x) ==
  IF x.k = "nan" THEN <<"N", "a", "N">>
  ELSE IF x.k # "num" THEN <<"f", "u", "n", "c", "t", "i", "o", "n">>
  ELSE
    LET neg == x.m < 0
        a == IF neg THEN 0 - x.m ELSE x.m
        ds == DecStr(a)
        sign == IF neg THEN <<"-">> ELSE <<>>
        body ==
          IF x.e = 0 THEN ds
          ELSE IF Len(ds) > x.e
            THEN SubSeq(ds, 1, Len(ds) - x.e) \o <<".">>
                 \o SubSeq(ds, Len(ds) - x.e + 1, Len(ds))
          ELSE IF Len(ds) + 6 > x.e
            THEN <<"0", ".">> \o PadLeft(ds, x.e)
            ELSE <<Head(ds)>>
                 \o (IF Len(ds) > 1 THEN <<".">> \o Tail(ds) ELSE <<>>)
                 \o <<"e", "-">> \o DecStr(x.e - Len(ds) + 1)
    IN sign \o body


\* The character order the default Array.prototype.sort compares by
\* (UTF-16 code units) on the characters NumberToString produces.
CharCode(ch) ==
  IF IsDigit(ch) THEN 48 + DigitValue(ch)
  ELSE IF ch = "-" THEN 45
  ELSE IF ch = "." THEN 46
  ELSE IF ch = "N" THEN 78
  ELSE IF ch = "a" THEN 97
  ELSE IF ch = "e" THEN 101
  ELSE 110

RECURSIVE StrLess(_, _)
\* s < t as strings: the first differing character decides, a proper prefix
\* is smaller.
StrLess(s, t) ==
  IF t = <<>> THEN FALSE
  ELSE IF s = <<>> THEN TRUE
  ELSE IF Head(s) # Head(t) THEN CharCode(Head(s)) < CharCode(Head(t))
  ELSE StrLess(Tail(s), Tail(t))

(***************************************************************************)
(* parseInt(hex, 16) and Number(string)                                    *)
(***************************************************************************)
RECURSIVE StripLeft(_)
StripLeft(s) ==
  IF s # <<>> /\ IsWhiteSpace(Head(s)) THEN StripLeft(Tail(s)) ELSE s

RECURSIVE HexPrefix(_, _, _)
\* The value of the longest prefix of hex digits of s, acc so far; NaN when
\* there is none.
HexPrefix(s, acc, any) ==
  IF s # <<>> /\ IsHexDigit(Head(s))
    THEN HexPrefix(Tail(s), acc * 16 + HexValue(Head(s)), TRUE)
    ELSE IF any THEN Whole(acc) ELSE NaN

Negate(x) == IF x.k = "num" THEN [x EXCEPT !.m = 0 - x.m] ELSE x

\* parseInt(string, 16): leading white space is skipped, a sign and a 0x
\* prefix are accepted, and the digits stop at the first character that is
\* not a hex digit.
ParseInt16(str) ==
  LET s == StripLeft(str)
      neg == s # <<>> /\ Head(s) = "-"
      t == IF s # <<>> /\ Head(s) \in {"-", "+"} THEN Tail(s) ELSE s
      u == IF Len(t) >= 2 /\ t[1] = "0" /\ t[2] \in {"x", "X"}
             THEN SubSeq(t, 3, Len(t)) ELSE t
      v == HexPrefix(u, 0, FALSE)
  IN IF neg THEN Negate(v) ELSE v

\* hexToByte as the earlier version of the module has it: the byte scaled to
\* [0, 1] on the spot.
hexToByteScaled(hex) ==
  IF ParseInt16(hex).k # "num" THEN NaN
  ELSE Norm((ParseInt16(hex).m * 10000) \div 255, 4)

hexToByte(hex) == ParseInt16(hex)

RECURSIVE DecValue(_, _)
DecValue(s, acc) ==
  IF s = <<>> THEN acc ELSE DecValue(Tail(s), acc * 10 + DigitValue(Head(s)))

\* Number(string) on the strings RGBA_PATTERN captures: a run of digits,
\* optionally a point and a run of digits; "." alone is not a number.
NumberOf(str) ==
  LET dot == IF \E i \in 1..Len(str) : str[i] = "."
               THEN CHOOSE i \in 1..Len(str) : str[i] = "." ELSE Len(str) + 1
      ip == SubSeq(str, 1, dot - 1)
      fp == SubSeq(str, dot + 1, Len(str))
  IN IF ip = <<>> /\ fp = <<>> THEN NaN
     ELSE Norm(DecValue(ip \o fp, 0), Len(fp))

(***************************************************************************)
(* RGBA_PATTERN: "rgb", an optional "a", "(", three runs of digits separated *)
(* by commas, an optional comma with an alpha ("1", "0", or an optional    *)
(* "0", a point and any digits), and ")".  The pattern has no anchors.     *)
(***************************************************************************)
\* color.replace(/ /g, ''): every space character removed.
RemoveSpaces(s) == SelectSeq(s, LAMBDA ch : ch # " ")

At(s, i) == IF i >= 1 /\ i <= Len(s) THEN s[i] ELSE ""

RECURSIVE DigitsEnd(_, _)
\* The first position from p on that holds no digit.
DigitsEnd(s, p) == IF IsDigit(At(s, p)) THEN DigitsEnd(s, p + 1) ELSE p

NoMatch == [ok |-> FALSE, g1 |-> <<>>, g2 |-> <<>>, g3 |-> <<>>,
            has4 |-> FALSE, g4 |-> <<>>, end |-> 0]

\* The alpha group of the earlier pattern, in which the "0" before the point
\* is not optional.
AlphaEndLeadingZero(s, p) ==
  LET r == IF At(s, p) = "0" /\ At(s, p + 1) = "." THEN DigitsEnd(s, p + 2)
           ELSE 0
  IN IF At(s, p) = "1" /\ At(s, p + 1) = ")" THEN p + 1
     ELSE IF At(s, p) = "0" /\ At(s, p + 1) = ")" THEN p + 1
     ELSE IF r > 0 /\ At(s, r) = ")" THEN r
     ELSE 0

\* The alpha group followed by the closing parenthesis: the end of the
\* alternative that lets the rest of the pattern match at p, tried in the
\* order written ("1", "0", optional "0" with a point and digits); 0 when
\* none does.
AlphaEnd(s, p) ==
  LET q == IF At(s, p) = "0" THEN p + 1 ELSE p
      r == IF At(s, q) = "." THEN DigitsEnd(s, q + 1) ELSE 0
  IN IF At(s, p) = "1" /\ At(s, p + 1) = ")" THEN p + 1
     ELSE IF At(s, p) = "0" /\ At(s, p + 1) = ")" THEN p + 1
     ELSE IF r > 0 /\ At(s, r) = ")" THEN r
     ELSE 0

\* The pattern matched with its first character at position i.
MatchAt(s, i) ==
  LET a == IF At(s, i + 3) = "a" THEN i + 4 ELSE i + 3
      p1 == a + 1
      e1 == DigitsEnd(s, p1)
      p2 == e1 + 1
      e2 == DigitsEnd(s, p2)
      p3 == e2 + 1
      e3 == DigitsEnd(s, p3)
      ae == IF At(s, e3) = "," THEN AlphaEnd(s, e3 + 1) ELSE 0
      head == /\ At(s, i) = "r" /\ At(s, i + 1) = "g" /\ At(s, i + 2) = "b"
              /\ At(s, a) = "("
              /\ e1 > p1 /\ At(s, e1) = ","
              /\ e2 > p2 /\ At(s, e2) = ","
              /\ e3 > p3
  IN IF ~head THEN NoMatch
     ELSE IF ae > 0
       THEN [ok |-> TRUE, g1 |-> SubSeq(s, p1, e1 - 1),
             g2 |-> SubSeq(s, p2, e2 - 1), g3 |-> SubSeq(s, p3, e3 - 1),
             has4 |-> TRUE, g4 |-> SubSeq(s, e3 + 1, ae - 1), end |-> ae]
     ELSE IF At(s, e3) = ")"
       THEN [ok |-> TRUE, g1 |-> SubSeq(s, p1, e1 - 1),
             g2 |-> SubSeq(s, p2, e2 - 1), g3 |-> SubSeq(s, p3, e3 - 1),
             has4 |-> FALSE, g4 |-> <<>>, end |-> e3]
     ELSE NoMatch

RECURSIVE MatchFrom(_, _)
\* The leftmost match that starts at position i or later.
MatchFrom(s, i) ==
  IF i > Len(s) THEN NoMatch
  ELSE IF At(s, i) = "r" /\ MatchAt(s, i).ok THEN MatchAt(s, i)
  ELSE MatchFrom(s, i + 1)

\* String.prototype.match with a pattern that has no anchors and no g flag:
\* the leftmost position at which the pattern matches.
RegexMatch(s) == CHOOSE m \in {MatchFrom(t, 1) : t \in {s}} : TRUE

(***************************************************************************)
(* componentsToLuminance, in fixed point                                   *)
(***************************************************************************)
\* One unit of a channel value: four decimals.
Unit == 10 ^ 4

\* x as a count of 10^-d; decimals of x beyond the d-th are dropped.
Fix(x, d) ==
  IF x.e > d THEN x.m \div Pow10(x.e - d) ELSE x.m * Pow10(d - x.e)

\* color[i] / 255: four decimals, and eight decimals for a component
\* below 1, whose quotient is below 0.0039.
Div255(x) ==
  IF x.k # "num" THEN NaN
  ELSE IF x.m >= 0 /\ x.m < Pow10(x.e)
    THEN Norm((x.m * Pow10(8 - x.e)) \div 255, 8)
  ELSE Norm((x.m * Unit) \div (255 * Pow10(x.e)), 4)

\* The product of two channel values.
Mul(x, y) == (x * y) \div Unit

\* t ** 5
Pow5(t) == Mul(Mul(Mul(Mul(t, t), t), t), t)

RECURSIVE Root5Between(_, _, _)
\* The largest t in lo..hi with t ** 5 <= v (Pow5(lo) <= v).
Root5Between(v, lo, hi) ==
  IF lo >= hi THEN lo
  ELSE CHOOSE t \in { IF Pow5(mid) <= v THEN Root5Between(v, mid, hi)
                      ELSE Root5Between(v, lo, mid - 1) :
                      mid \in {(lo + hi + 1) \div 2} } : TRUE

\* x ** 2.4 = x ** 2 * (x ** 2) ** (1/5), for 0 <= x <= 1
Pow24(x) ==
  LET x2 == Mul(x, x)
  IN Mul(x2, Root5Between(x2, 0, Unit))

\* Linearize with the switch at 0.3928.
LinearizeLateSwitch(c) ==
  IF c * 10 > 39280
    THEN Pow24(((c + 550) * 1000) \div 1055)
    ELSE (c * 100) \div 1292

\* Linearize with the linear branch divided by 1.292.
LinearizeSteep(c) ==
  IF c * 10 > 3928
    THEN Pow24(((c + 550) * 1000) \div 1055)
    ELSE (c * 1000) \div 1292

\* c > 0.03928 ? ((c + 0.055) / 1.055) ** 2.4 : c / 12.92
Linearize(c) ==
  IF c * 10 > 3928
    THEN Pow24(((c + 550) * 1000) \div 1055)
    ELSE (c * 100) \div 1292

\* c / 12.92 for a channel value c below 0.0039, which is below the switch
\* at 0.03928; c and the result count 10^-8.
LinearizeSmall(c) == (c * 100) \div 1292

\* One unit of a channel value below 0.0039: eight decimals.
SmallUnit == 10 ^ 8

\* The channel value x is below 0.0039, the first four decimals of 1 / 255.
IsSmall(x) == x.k = "num" /\ x.m >= 0 /\ Fix(x, 8) < 39 * (SmallUnit \div Unit)

\* With three channel values below 0.0039 the luminance has twelve decimals,
\* otherwise eight.
componentsToLuminance(r, g, b) ==
  IF IsNaN(r) \/ IsNaN(g) \/ IsNaN(b) THEN NaN
  ELSE IF IsSmall(r) /\ IsSmall(g) /\ IsSmall(b) THEN
    Norm(2126 * LinearizeSmall(Fix(r, 8)) + 7152 * LinearizeSmall(Fix(g, 8))
         + 722 * LinearizeSmall(Fix(b, 8)), 12)
  ELSE
    LET rl == Linearize(Fix(r, 4))
        gl == Linearize(Fix(g, 4))
        bl == Linearize(Fix(b, 4))
    IN Norm(2126 * rl + 7152 * gl + 722 * bl, 8)

(***************************************************************************)
(* Outcomes of a call, assertRgbColor and colorLuminance                   *)
(***************************************************************************)
Return(v) == [kind |-> "return", value |-> v, literal |-> <<>>, alpha |-> NaN]

UnsupportedFormat(color) ==
  [kind |-> "UnsupportedFormat", value |-> NaN, literal |-> color,
   alpha |-> NaN]

NeedsAlphaBlending(color, alpha) ==
  [kind |-> "NeedsAlphaBlending", value |-> NaN, literal |-> color,
   alpha |-> alpha]

RECURSIVE Join(_)
\* Array.prototype.join(', ')
Join(color) ==
  IF color = <<>> THEN <<>>
  ELSE IF Len(color) = 1 THEN NumberToString(color[1])
  ELSE NumberToString(color[1]) \o <<",", " ">> \o Join(Tail(color))

\* `[${color.join(', ')}]`
Bracketed(color) == <<"[">> \o Join(color) \o <<"]">>

\* assertRgbColor with the alpha tested for truth first, which lets an
\* alpha of 0 through.
assertRgbColorTruthyAlpha(color) ==
  IF \/ Len(color) < 3
     \/ Len(color) > 4
     \/ \E i \in 1..Len(color) : LtInt(color[i], 0) \/ GtInt(color[i], 255)
    THEN UnsupportedFormat(Bracketed(color))
  ELSE IF Len(color) = 4 /\ Truthy(color[4]) /\ color[4] # Whole(1)
    THEN NeedsAlphaBlending(Bracketed(color), color[4])
  ELSE Return(NaN)

\* The error assertRgbColor throws, or a return of no interest when it
\* throws none.
assertRgbColor(color) ==
  IF \/ Len(color) < 3
     \/ Len(color) > 4
     \/ \E i \in 1..Len(color) : LtInt(color[i], 0) \/ GtInt(color[i], 255)
    THEN UnsupportedFormat(Bracketed(color))
  ELSE IF Len(color) = 4 /\ color[4] # Whole(1)
    THEN NeedsAlphaBlending(Bracketed(color), color[4])
  ELSE Return(NaN)

\* colorLuminance on an array: lines 207-209.
ArrayLuminance(color) ==
  LET a == assertRgbColor(color)
  IN IF a.kind # "return" THEN a
     ELSE Return(componentsToLuminance(Div255(color[1]), Div255(color[2]),
                                       Div255(color[3])))

\* The names every object inherits from Object.prototype: CACHE is created
\* as {}, so CACHE[name] finds them.
ObjectPrototypeKeys ==
  { <<"c", "o", "n", "s", "t", "r", "u", "c", "t", "o", "r">>,
    <<"t", "o", "S", "t", "r", "i", "n", "g">>,
    <<"v", "a", "l", "u", "e", "O", "f">> }

HasOwn(C, key) == \E en \in C : en.key = key

\* CACHE[key]
Lookup(C, key) ==
  IF HasOwn(C, key) THEN (CHOOSE en \in C : en.key = key).value
  ELSE IF key \in ObjectPrototypeKeys THEN FunctionValue
  ELSE Undefined

\* return (CACHE[color] = <the array call>): the assignment happens only
\* when the call returns.
Store(C, key, result) ==
  CHOOSE r \in
    { IF out.kind = "return"
        THEN [out |-> out, hit |-> FALSE,
              cache |-> {en \in C : en.key # key}
                        \cup {[key |-> key, value |-> out.value]}]
        ELSE [out |-> out, hit |-> FALSE, cache |-> C] :
      out \in {result} } : TRUE

Unstored(C, out) == [out |-> out, hit |-> FALSE, cache |-> C]

Str(s) == [t |-> "str", s |-> s, a |-> <<>>]

Arr(a) == [t |-> "arr", s |-> <<>>, a |-> a]

\* The '#' branch with '#rgba' taken for a shorthand as well.
HexStringWithShortAlpha(s, C) ==
  LET rgb == Tail(s)
  IN IF Len(rgb) = 3 \/ Len(rgb) = 4
       THEN Store(C, s, ArrayLuminance(
              << hexToByte(<<rgb[1], rgb[1]>>),
                 hexToByte(<<rgb[2], rgb[2]>>),
                 hexToByte(<<rgb[3], rgb[3]>>) >>))
     ELSE IF Len(rgb) = 8 /\ hexToByte(SubSeq(rgb, 7, 8)) # Whole(255)
       THEN Unstored(C, NeedsAlphaBlending(s, hexToByte(SubSeq(rgb, 7, 8))))
     ELSE IF Len(rgb) = 6 \/ Len(rgb) = 8
       THEN Store(C, s, ArrayLuminance(
              << hexToByte(SubSeq(rgb, 1, 2)),
                 hexToByte(SubSeq(rgb, 3, 4)),
                 hexToByte(SubSeq(rgb, 5, 6)) >>))
     ELSE Unstored(C, UnsupportedFormat(s))

\* The branch for a string that starts with '#': lines 162-188.
HexString(s, C) ==
  LET rgb == Tail(s)
  IN IF Len(rgb) = 3
       THEN Store(C, s, ArrayLuminance(
              << hexToByte(<<rgb[1], rgb[1]>>),
                 hexToByte(<<rgb[2], rgb[2]>>),
                 hexToByte(<<rgb[3], rgb[3]>>) >>))
     ELSE IF Len(rgb) = 8 /\ hexToByte(SubSeq(rgb, 7, 8)) # Whole(255)
       THEN Unstored(C, NeedsAlphaBlending(s, hexToByte(SubSeq(rgb, 7, 8))))
     ELSE IF Len(rgb) = 6 \/ Len(rgb) = 8
       THEN Store(C, s, ArrayLuminance(
              << hexToByte(SubSeq(rgb, 1, 2)),
                 hexToByte(SubSeq(rgb, 3, 4)),
                 hexToByte(SubSeq(rgb, 5, 6)) >>))
     ELSE Unstored(C, UnsupportedFormat(s))

\* The branch for every other string with the luminance stored under the
\* string without its spaces.
FunctionalStringStripped(s, C) ==
  CHOOSE r \in
    { IF matches.ok THEN
        IF matches.has4 /\ matches.g4 # <<>> /\ matches.g4 # <<"1">>
          THEN Unstored(C, NeedsAlphaBlending(s, NumberOf(matches.g4)))
          ELSE Store(C, RemoveSpaces(s), ArrayLuminance(
                 <<NumberOf(matches.g1), NumberOf(matches.g2),
                   NumberOf(matches.g3)>>))
      ELSE Unstored(C, UnsupportedFormat(s)) :
      matches \in {RegexMatch(RemoveSpaces(s))} } : TRUE

\* The branch for every other string: lines 190-204.  matches[4] is
\* undefined when the alpha group took no part in the match.
FunctionalString(s, C) ==
  CHOOSE r \in
    { IF matches.ok THEN
        IF matches.has4 /\ matches.g4 # <<>> /\ matches.g4 # <<"1">>
          THEN Unstored(C, NeedsAlphaBlending(s, NumberOf(matches.g4)))
          ELSE Store(C, s, ArrayLuminance(
                 <<NumberOf(matches.g1), NumberOf(matches.g2),
                   NumberOf(matches.g3)>>))
      ELSE Unstored(C, UnsupportedFormat(s)) :
      matches \in {RegexMatch(RemoveSpaces(s))} } : TRUE

\* colorLuminance(color, cache) called with CACHE = C: the outcome, whether
\* the cache branch answered, and CACHE afterwards.
colorLuminance(color, cache, C) ==
  IF color.t = "str" THEN
    IF cache /\ Truthy(Lookup(C, color.s))
      THEN [out |-> Return(Lookup(C, color.s)), hit |-> TRUE, cache |-> C]
    ELSE IF At(color.s, 1) = "#" THEN HexString(color.s, C)
    ELSE FunctionalString(color.s, C)
  ELSE Unstored(C, ArrayLuminance(color.a))

(***************************************************************************)
(* The earlier colorLuminance(color, perceived) of src/unnamed/part_001:   *)
(* no CACHE, no gamma step, hexToByte already divides by 255.              *)
(***************************************************************************)
NotPremultiplied(color, alpha) ==
  [kind |-> "NotPremultiplied", value |-> NaN, literal |-> color,
   alpha |-> alpha]

\* parseInt(hex, 16) / 255
hexToByte_part001(hex) == Div255(ParseInt16(hex))

\* The earlier pattern demands the "0" before the point of the alpha: a
\* point that follows a comma can match nothing, and is replaced by a
\* character that the pattern of today cannot match either.
RegexMatch_part001(s) ==
  RegexMatch([i \in 1..Len(s) |->
                IF s[i] = "." /\ i > 1 /\ s[i - 1] = "," THEN "!" ELSE s[i]])

\* perceived ? 0.299 r + 0.587 g + 0.114 b : 0.2126 r + 0.7152 g + 0.0722 b
componentsToLuminance_part001(r, g, b, perceived) ==
  IF IsNaN(r) \/ IsNaN(g) \/ IsNaN(b) THEN NaN
  ELSE IF perceived
    THEN Norm(299 * Fix(r, 6) + 587 * Fix(g, 6) + 114 * Fix(b, 6), 9)
    ELSE Norm(2126 * Fix(r, 5) + 7152 * Fix(g, 5) + 722 * Fix(b, 5), 9)

assertRgbColor_part001(color) ==
  IF \/ Len(color) < 3
     \/ Len(color) > 4
     \/ \E i \in 1..Len(color) : LtInt(color[i], 0) \/ GtInt(color[i], 255)
    THEN UnsupportedFormat(Bracketed(color))
  ELSE IF Len(color) = 4 /\ color[4] # Whole(1)
    THEN NotPremultiplied(Bracketed(color), color[4])
  ELSE Return(NaN)

\* colorLuminance of an array
ArrayLuminance_part001(color, perceived) ==
  IF assertRgbColor_part001(color).kind # "return"
    THEN assertRgbColor_part001(color)
    ELSE Return(componentsToLuminance_part001(
           Div255(color[1]), Div255(color[2]), Div255(color[3]), perceived))

\* colorLuminance(color, perceived): the six- and eight-digit branch calls
\* the array form without the flag.
colorLuminance_part001(color, perceived) ==
  IF color.t = "arr" THEN ArrayLuminance_part001(color.a, perceived)
  ELSE IF At(color.s, 1) = "#" THEN
    LET rgb == Tail(color.s)
    IN IF Len(rgb) = 3
         THEN ArrayLuminance_part001(
                << hexToByte_part001(<<rgb[1], rgb[1]>>),
                   hexToByte_part001(<<rgb[2], rgb[2]>>),
                   hexToByte_part001(<<rgb[3], rgb[3]>>) >>, perceived)
       ELSE IF Len(rgb) = 8 /\ hexToByte_part001(SubSeq(rgb, 7, 8)) # Whole(255)
         THEN NotPremultiplied(color.s, hexToByte_part001(SubSeq(rgb, 7, 8)))
       ELSE IF Len(rgb) = 6 \/ Len(rgb) = 8
         THEN ArrayLuminance_part001(
                << hexToByte_part001(SubSeq(rgb, 1, 2)),
                   hexToByte_part001(SubSeq(rgb, 3, 4)),
                   hexToByte_part001(SubSeq(rgb, 5, 6)) >>, FALSE)
       ELSE UnsupportedFormat(color.s)
  ELSE
    CHOOSE r \in
      { IF matches.ok THEN
          IF matches.has4 /\ matches.g4 # <<>> /\ matches.g4 # <<"1">>
            THEN NotPremultiplied(color.s, NumberOf(matches.g4))
            ELSE ArrayLuminance_part001(
                   <<NumberOf(matches.g1), NumberOf(matches.g2),
                     NumberOf(matches.g3)>>, perceived)
        ELSE UnsupportedFormat(color.s) :
        matches \in {RegexMatch_part001(RemoveSpaces(color.s))} } : TRUE

(***************************************************************************)
(* contrast                                                                *)
(***************************************************************************)
\* The pair left in the order given.
Unsorted(la, lb) == <<la, lb>>

\* [la, lb].sort(): no comparator is given, so the elements are compared as
\* strings.
SortPair(la, lb) ==
  IF StrLess(NumberToString(lb), NumberToString(la)) THEN <<lb, la>>
  ELSE <<la, lb>>

\* (l1 + 0.05) / (l2 + 0.05), with three decimals
Ratio(l1, l2) ==
  IF l1.k # "num" \/ l2.k # "num" THEN NaN
  ELSE Norm(((Fix(l1, 8) + 5000000) * 10) \div ((Fix(l2, 8) + 5000000) \div 100),
            3)

\* The outcome of contrast from the outcomes a and b of its two calls of
\* colorLuminance; the second call is not made when the first one throws.
Contrasted(a, b) ==
  IF a.out.kind # "return"
    THEN [out |-> a.out, cache |-> a.cache, la |-> NaN, lb |-> NaN]
  ELSE IF b.out.kind # "return"
    THEN [out |-> b.out, cache |-> b.cache, la |-> a.out.value, lb |-> NaN]
  ELSE [out |-> Return(Ratio(SortPair(a.out.value, b.out.value)[2],
                             SortPair(a.out.value, b.out.value)[1])),
        cache |-> b.cache, la |-> a.out.value, lb |-> b.out.value]

\* contrast(color, background) called with CACHE = C.
contrast(color, background, C) ==
  CHOOSE r \in
    UNION { { Contrasted(a, b) :
              b \in {colorLuminance(background, TRUE, a.cache)} } :
            a \in {colorLuminance(color, TRUE, C)} } : TRUE

(***************************************************************************)
(* Arguments                                                               *)
(***************************************************************************)
MaxByte == 255

\* The bytes the colours are built from: both ends, the two values around
\* the switch of componentsToLuminance, and bytes of two equal hex digits.
SampleBytes == {0, 10, 11, 34, 170, MaxByte}

Triples == {<<r, g, b>> : r \in SampleBytes, g \in SampleBytes, b \in SampleBytes}

\* The array [r, g, b] of the triple t.
Bytes(t) == <<Whole(t[1]), Whole(t[2]), Whole(t[3])>>

HexDigitChar(v, upper) ==
  IF v < 10 THEN Digits[v + 1]
  ELSE IF upper THEN HexUpper[v - 9] ELSE HexLower[v - 9]

Hex2(b, upper) == <<HexDigitChar(b \div 16, upper), HexDigitChar(b % 16, upper)>>

\* '#rrggbb'
Hex6(t, upper) == <<"#">> \o Hex2(t[1], upper) \o Hex2(t[2], upper) \o Hex2(t[3], upper)

\* '#rgb', for bytes of two equal hex digits
Hex3(t, upper) ==
  <<"#", HexDigitChar(t[1] \div 17, upper), HexDigitChar(t[2] \div 17, upper),
    HexDigitChar(t[3] \div 17, upper)>>

HasShorthand(t) == \A i \in 1..3 : t[i] % 17 = 0

\* 'rgb(r,g,b)' and 'rgba(r,g,b,alpha)': name is "rgb" or "rgba" spelled
\* out, alpha is <<>> when there is none, sep separates the components.
Functional(name, r, g, b, alpha, sep) ==
  name \o <<"(">> \o r \o <<",">> \o sep \o g \o <<",">> \o sep \o b
  \o (IF alpha = <<>> THEN <<>> ELSE <<",">> \o sep \o alpha) \o <<")">>

Rgb == <<"r", "g", "b">>

Rgba == <<"r", "g", "b", "a">>

\* Every encoding of the opaque colour t.
Encodings(t) ==
  LET r == DecStr(t[1])
      g == DecStr(t[2])
      b == DecStr(t[3])
  IN { Str(Hex6(t, FALSE)), Str(Hex6(t, TRUE)),
       Str(Hex6(t, FALSE) \o <<"f", "f">>), Str(Hex6(t, TRUE) \o <<"F", "F">>),
       Str(Functional(Rgb, r, g, b, <<>>, <<>>)),
       Str(Functional(Rgb, r, g, b, <<>>, <<" ">>)),
       Str(Functional(Rgba, r, g, b, <<"1">>, <<>>)),
       Str(Functional(Rgba, r, g, b, <<"1">>, <<" ", " ">>)),
       Arr(<<Whole(t[1]), Whole(t[2]), Whole(t[3])>>),
       Arr(<<Whole(t[1]), Whole(t[2]), Whole(t[3]), Whole(1)>>) }
     \cup (IF HasShorthand(t) THEN {Str(Hex3(t, FALSE)), Str(Hex3(t, TRUE))}
           ELSE {})

OpaqueColors == UNION {Encodings(t) : t \in Triples}

\* [v, 0, 0], [0, v, 0] and [0, 0, v] on a base colour.
WithChannel(base, ch, v) ==
  Arr([i \in 1..3 |-> IF i = ch THEN Whole(v) ELSE Whole(base[i])])

ChannelSweep ==
  { WithChannel(base, ch, v) :
      base \in {<<0, 0, 0>>, <<MaxByte, MaxByte, MaxByte>>},
      ch \in 1..3, v \in 0..MaxByte }

MaxHexLen == 9

RECURSIVE Repeat(_, _)
Repeat(ch, n) == IF n = 0 THEN <<>> ELSE <<ch>> \o Repeat(ch, n - 1)

\* '#' followed by n hex digits, for every n up to MaxHexLen.
HexOfLength(n) == Str(<<"#">> \o Repeat("f", n))

HexStrings == {HexOfLength(n) : n \in 0..MaxHexLen}

\* '#rrggbbaa' with an alpha byte below 255.
TranslucentHex ==
  { Str(Hex6(t, u) \o Hex2(a, u)) :
      t \in {<<MaxByte, MaxByte, MaxByte>>, <<170, 34, 11>>},
      a \in {0, 102, 254}, u \in BOOLEAN }

AlphaTokens ==
  { <<"0">>, <<"0", ".", "4">>, <<".", "4">>, <<"0", ".">>, <<".">>,
    <<"0", ".", "4", "0">> }

\* Functional notation with an alpha other than '1'.
TranslucentFunctional ==
  { Str(Functional(name, c[1], c[2], c[3], alpha, sep)) :
      name \in {Rgb, Rgba},
      c \in {<<DecStr(MaxByte), DecStr(MaxByte), DecStr(MaxByte)>>,
             <<DecStr(300), DecStr(0), DecStr(0)>>},
      alpha \in AlphaTokens, sep \in {<<>>, <<" ">>} }

\* Strings that start with '#' and hold a character that is no hex digit.
NonHexStrings ==
  { Str(<<"#", "g", "g", "g">>),
    Str(<<"#", "0", "g", "0">>),
    Str(<<"#", "g", "g", "0", "0", "0", "0">>),
    Str(<<"#", "0", "g", "0", "0", "0", "0">>),
    Str(<<"#", "0", "0", "g", "0", "0", "0">>),
    Str(<<"#", "f", "f", "f", "f", "f", "f", "g", "g">>),
    Str(<<"#", "f", "f", "f", "f", "f", "f", "0", "g">>),
    Str(<<"#", "-", "1", "0", "0", "0", "0">>),
    Str(<<"#", "0", "x", "0", "0", "0", "0">>),
    Str(<<"#", " ", "f", "f", "0", "0", "0">>),
    Str(<<"#", "f", "f", "f", "f", "f", "f", "f", "g">>) }

\* Strings that do not start with '#': functional notation out of range or
\* malformed, other notations, keywords, names of inherited properties.
OtherStrings ==
  { Str(<<"r", "g", "b", "(", "2", "5", "6", ",", "0", ",", "0", ")">>),
    Str(<<"r", "g", "b", "a", "(", "0", ",", " ", "0", ",", " ", "3", "0", "0", ",", " ", "1", ")">>),
    Str(<<"r", "g", "b", "(", "1", ",", "2", ")">>),
    Str(<<"r", "g", "b", "(", "1", ",", "2", ",", "3", ",", "1", ",", "1", ")">>),
    Str(<<"r", "g", "b", "(", "-", "1", ",", "2", ",", "3", ")">>),
    Str(<<"r", "g", "b", "(", "1", ".", "5", ",", "2", ",", "3", ")">>),
    Str(<<"r", "g", "b", "a", "(", "1", ",", "2", ",", "3", ",", "1", ".", "0", ")">>),
    Str(<<"r", "g", "b", "a", "(", "1", ",", "2", ",", "3", ",", "2", ")">>),
    Str(<<"r", "g", "b", "a", "(", "1", ",", "2", ",", "3", ",", "0", "1", ")">>),
    Str(<<"r", "e", "d">>),
    Str(<<"h", "s", "l", "a", "(", "0", ",", " ", "0", ",", " ", "0", ",", " ", "1", ")">>),
    Str(<<"x", "r", "g", "b", "(", "0", ",", "0", ",", "0", ")">>),
    Str(<<"r", "g", "b", "(", "0", ",", "0", ",", "0", ")", "x">>),
    Str(<<"r", "g", "b", "(", "0", ",", "0", ",", "1", ")", "r", "g", "b", "(", "2", "5", "5", ",", "2", "5", "5", ",", "2", "5", "5", ")">>),
    Str(<<"R", "G", "B", "(", "0", ",", "0", ",", "0", ")">>),
    Str(<<>>),
    Str(<<"c", "o", "n", "s", "t", "r", "u", "c", "t", "o", "r">>),
    Str(<<"t", "o", "S", "t", "r", "i", "n", "g">>),
    Str(<<"r", "g", "b", "(", "0", "0", "7", ",", "0", ",", "0", ")">>),
    Str(<<"r", "g", "b", "(", "0", ",", "0", ",", "0">>),
    Str(<<"r", "g", "b", "(", "0", ",", "0", ",", ")">>),
    Str(<<"u", "r", "l", "(", "r", "g", "b", "a", "(", "1", ",", "2", ",", "3", ",", "0", ".", "4", ")", ")">>) }

\* Arrays that are translucent, out of range or of the wrong length, and
\* arrays with a fraction as a component.
OtherArrays ==
  { Arr(<<Whole(0), Whole(0), Whole(0), Norm(4, 1)>>),
    Arr(<<Whole(255), Whole(255), Whole(255), Whole(0)>>),
    Arr(<<Whole(0), Whole(0), Whole(0), Whole(2)>>),
    Arr(<<Whole(0), Whole(0), Whole(0), Whole(256)>>),
    Arr(<<Whole(0), Whole(0), Whole(0), Negate(Whole(1))>>),
    Arr(<<Whole(300), Whole(0), Whole(0), Norm(5, 1)>>),
    Arr(<<Whole(0), Whole(0), Whole(0), NaN>>),
    Arr(<<NaN, Whole(0), Whole(0), Norm(5, 1)>>),
    Arr(<<Whole(0), Whole(0)>>),
    Arr(<<>>),
    Arr(<<Whole(0), Whole(0), Whole(0), Whole(1), Whole(1)>>),
    Arr(<<Whole(256), Whole(0), Whole(0)>>),
    Arr(<<Negate(Whole(1)), Whole(0), Whole(0)>>),
    Arr(<<Whole(0), Whole(0), Norm(2555, 1)>>),
    Arr(<<Norm(1275, 1), Whole(0), Whole(0)>>),
    Arr(<<Whole(0), Whole(0), Whole(0), Whole(1)>>) }

(***************************************************************************)
(* State: the module-level CACHE (its own properties, as key/value         *)
(* entries), the last call with its outcome, and the number of calls made. *)
(***************************************************************************)
NoColor == [t |-> "none", s |-> <<>>, a |-> <<>>]

NoCall ==
  [op |-> "none", color |-> NoColor, background |-> NoColor, flag |-> TRUE,
   kind |-> "none", value |-> NaN, literal |-> <<>>, alpha |-> NaN,
   hit |-> FALSE, la |-> NaN, lb |-> NaN, threshold |-> Undefined]

\* const CACHE: Record<string, number> = {}
Init ==
  /\ CACHE = {}
  /\ last = NoCall
  /\ calls = 0

\* A call colorLuminance(color, cache).
ColorLuminance(color, cache) ==
  \E r \in {colorLuminance(color, cache, CACHE)} :
     /\ CACHE' = r.cache
     /\ last' = [op |-> "colorLuminance", color |-> color,
                 background |-> NoColor, flag |-> cache,
                 kind |-> r.out.kind, value |-> r.out.value,
                 literal |-> r.out.literal, alpha |-> r.out.alpha,
                 hit |-> r.hit, la |-> NaN, lb |-> NaN,
                 threshold |-> Undefined]
     /\ calls' = calls + 1

\* A call contrast(color, background).
Contrast(color, background) ==
  \E r \in {contrast(color, background, CACHE)} :
     /\ CACHE' = r.cache
     /\ last' = [op |-> "contrast", color |-> color,
                 background |-> background, flag |-> TRUE,
                 kind |-> r.out.kind, value |-> r.out.value,
                 literal |-> r.out.literal, alpha |-> r.out.alpha,
                 hit |-> FALSE, la |-> r.la, lb |-> r.lb,
                 threshold |-> Undefined]
     /\ calls' = calls + 1

(***************************************************************************)
(* The hooks.  useMemo runs its function on the first render of a          *)
(* component, which is the call modelled here.                             *)
(***************************************************************************)
Bool(b) == [k |-> "bool", m |-> IF b THEN 1 ELSE 0, e |-> 0]

\* x < y on numbers, compared to d decimals; false when either is NaN.
Less(x, y, d) == x.k = "num" /\ y.k = "num" /\ Fix(x, d) < Fix(y, d)

LUMINANCE_DARK_THRESHOLD == Norm(35, 2)

AA_THRESHOLD_CONTRAST == Norm(45, 1)

AAA_THRESHOLD_CONTRAST == Whole(7)

AA_LARGE_SIZE_THRESHOLD_CONTRAST == Whole(3)

AAA_LARGE_SIZE_THRESHOLD_CONTRAST == Norm(45, 1)

\* A parameter with a default takes it when the argument is left out.
DefaultColor(arg, default) == IF arg = NoColor THEN default ELSE arg

DefaultNumber(arg, default) == IF arg = Undefined THEN default ELSE arg

\* useColorLuminance(color): useMemo(() => colorLuminance(color), [color])
useColorLuminance(color, C) == colorLuminance(color, TRUE, C)

\* useContrast(color, background)
useContrast(color, background, C) == contrast(color, background, C)

\* The outcome r of the wrapped call with its number replaced by verdict.
Verdict(r, verdict) ==
  [out |-> IF r.out.kind = "return" THEN Return(Bool(verdict)) ELSE r.out,
   cache |-> r.cache]

\* useIsColorDark with <= for <.
useIsColorDarkAtMost(color, threshold, C) ==
  CHOOSE v \in
    { Verdict(r, ~Less(DefaultNumber(threshold, LUMINANCE_DARK_THRESHOLD),
                       r.out.value, 8)
                 /\ r.out.value.k = "num") :
      r \in {useColorLuminance(color, C)} } : TRUE

\* useIsColorDark(color, threshold = LUMINANCE_DARK_THRESHOLD)
useIsColorDark(color, threshold, C) ==
  CHOOSE v \in
    { Verdict(r, Less(r.out.value,
                      DefaultNumber(threshold, LUMINANCE_DARK_THRESHOLD), 8)) :
      r \in {useColorLuminance(color, C)} } : TRUE

\* useHasContrastOnLight with >= for >.
useHasContrastOnLightAtLeast(color, background, threshold, C) ==
  CHOOSE v \in
    { Verdict(r, ~Less(r.out.value,
                       DefaultNumber(threshold, AA_THRESHOLD_CONTRAST), 3)
                 /\ r.out.value.k = "num") :
      r \in {useContrast(color,
                         DefaultColor(background,
                                      Str(<<"#", "f", "f", "f", "f", "f", "f">>)),
                         C)} } : TRUE

\* useHasContrastOnLight(color, background = '#ffffff',
\*                       threshold = AA_THRESHOLD_CONTRAST)
useHasContrastOnLight(color, background, threshold, C) ==
  CHOOSE v \in
    { Verdict(r, Less(DefaultNumber(threshold, AA_THRESHOLD_CONTRAST),
                      r.out.value, 3)) :
      r \in {useContrast(color,
                         DefaultColor(background,
                                      Str(<<"#", "f", "f", "f", "f", "f", "f">>)),
                         C)} } : TRUE

\* useHasContrastOnDark(color, background = '#000000',
\*                      threshold = AA_THRESHOLD_CONTRAST)
useHasContrastOnDark(color, background, threshold, C) ==
  CHOOSE v \in
    { Verdict(r, Less(DefaultNumber(threshold, AA_THRESHOLD_CONTRAST),
                      r.out.value, 3)) :
      r \in {useContrast(color,
                         DefaultColor(background,
                                      Str(<<"#", "0", "0", "0", "0", "0", "0">>)),
                         C)} } : TRUE

\* The record of a hook's first render.
HookCall(op, color, background, threshold, r) ==
  [op |-> op, color |-> color, background |-> background, flag |-> TRUE,
   kind |-> r.out.kind, value |-> r.out.value, literal |-> r.out.literal,
   alpha |-> r.out.alpha, hit |-> FALSE, la |-> NaN, lb |-> NaN,
   threshold |-> threshold]

UseIsColorDark(color, threshold) ==
  \E r \in {useIsColorDark(color, threshold, CACHE)} :
     /\ CACHE' = r.cache
     /\ last' = HookCall("useIsColorDark", color, NoColor, threshold, r)
     /\ calls' = calls + 1

UseHasContrastOnLight(color, background, threshold) ==
  \E r \in {useHasContrastOnLight(color, background, threshold, CACHE)} :
     /\ CACHE' = r.cache
     /\ last' = HookCall("useHasContrastOnLight", color, background,
                         threshold, r)
     /\ calls' = calls + 1

UseHasContrastOnDark(color, background, threshold) ==
  \E r \in {useHasContrastOnDark(color, background, threshold, CACHE)} :
     /\ CACHE' = r.cache
     /\ last' = HookCall("useHasContrastOnDark", color, background,
                         threshold, r)
     /\ calls' = calls + 1

(***************************************************************************)
(* Spec: sessions of up to MaxCalls calls on one CACHE.                    *)
(***************************************************************************)
MaxCalls == 2

SessionColors ==
  HexStrings
  \cup { Str(<<"#", "0", "0", "0">>), Str(<<"#", "g", "g", "g">>), Str(<<"#", "f", "f", "f", "f", "f", "f", "6", "6">>), Str(<<"r", "g", "b", "(", "2", "5", "5", ",", " ", "2", "5", "5", ",", " ", "2", "5", "5", ")">>), Str(<<"r", "g", "b", "(", "2", "5", "6", ",", "0", ",", "0", ")">>), Str(<<"x", "r", "g", "b", "(", "0", ",", "0", ",", "0", ")">>), Str(<<"r", "e", "d">>), Str(<<"c", "o", "n", "s", "t", "r", "u", "c", "t", "o", "r">>),
         Arr(<<Whole(MaxByte), Whole(MaxByte), Whole(MaxByte)>>),
         Arr(<<Whole(0), Whole(0), Whole(0), Norm(4, 1)>>) }

SessionBackgrounds ==
  { HexOfLength(3), Str(<<"#", "0", "0", "0">>), Str(<<"r", "e", "d">>),
    Arr(<<Whole(0), Whole(0), Whole(0), Norm(4, 1)>>) }

CallColorLuminance ==
  /\ calls < MaxCalls
  /\ \E color \in SessionColors, cache \in BOOLEAN : ColorLuminance(color, cache)

CallContrast ==
  /\ calls < MaxCalls
  /\ \E color \in SessionBackgrounds, background \in SessionBackgrounds :
       Contrast(color, background)

Next == CallColorLuminance \/ CallContrast

Spec == Init /\ [][Next]_vars

(***************************************************************************)
(* SpecCall: the first call after the module is loaded, over every         *)
(* argument of the pools.                                                  *)
(***************************************************************************)
CallColors ==
  OpaqueColors \cup ChannelSweep \cup HexStrings \cup TranslucentHex
  \cup TranslucentFunctional \cup NonHexStrings \cup OtherStrings
  \cup OtherArrays

\* Two arrays that differ by one step in one channel.
ChannelSteps ==
  { <<WithChannel(base, ch, v), WithChannel(base, ch, v + 1)>> :
      base \in {<<0, 0, 0>>, <<MaxByte, 170, 11>>},
      ch \in 1..3, v \in 0..(MaxByte - 1) }

ContrastColors ==
  UNION { { Arr(Bytes(t)), Str(Hex6(t, FALSE)),
            Str(Functional(Rgb, DecStr(t[1]), DecStr(t[2]), DecStr(t[3]),
                           <<>>, <<" ">>)) } :
          t \in {<<0, 0, 0>>, <<MaxByte, MaxByte, MaxByte>>, <<MaxByte, 0, 0>>,
                 <<0, 0, 10>>, <<170, 34, 11>>} }
  \cup { Arr(<<Whole(0), Whole(0), Whole(1)>>),
         Arr(<<Whole(0), Whole(0), Norm(1, 2)>>), Str(<<"r", "e", "d">>), Str(<<"#", "f", "f", "f", "f", "f", "f", "6", "6">>), Str(<<"#", "g", "g", "g">>) }

ContrastPairs ==
  ChannelSteps \cup (ContrastColors \X ContrastColors)

FirstColorLuminance ==
  /\ calls = 0
  /\ \E color \in CallColors, cache \in BOOLEAN : ColorLuminance(color, cache)

FirstContrast ==
  /\ calls = 0
  /\ \E pair \in ContrastPairs : Contrast(pair[1], pair[2])

NextCall == FirstColorLuminance \/ FirstContrast

SpecCall == Init /\ [][NextCall]_vars

(***************************************************************************)
(* SpecPerceived: one call of the earlier colorLuminance(color, perceived) *)
(* over every argument of the pools.                                       *)
(***************************************************************************)
ColorLuminance_part001(color, perceived) ==
  \E r \in {colorLuminance_part001(color, perceived)} :
     /\ last' = [op |-> "colorLuminance_part001", color |-> color,
                 background |-> NoColor, flag |-> perceived,
                 kind |-> r.kind, value |-> r.value,
                 literal |-> r.literal, alpha |-> r.alpha,
                 hit |-> FALSE, la |-> NaN, lb |-> NaN,
                 threshold |-> Undefined]
     /\ calls' = calls + 1
     /\ UNCHANGED CACHE

FirstPerceived ==
  /\ calls = 0
  /\ \E color \in CallColors, perceived \in BOOLEAN :
       ColorLuminance_part001(color, perceived)

NextPerceived == FirstPerceived

SpecPerceived == Init /\ [][NextPerceived]_vars

(***************************************************************************)
(* SpecHooks: the first render of one hook after the module is loaded.     *)
(***************************************************************************)
\* NoColor and Undefined stand for an argument left out.
HookBackgrounds == ContrastColors \cup {NoColor}

ContrastThresholds ==
  { Undefined, Whole(1), AA_LARGE_SIZE_THRESHOLD_CONTRAST,
    AA_THRESHOLD_CONTRAST, AAA_THRESHOLD_CONTRAST, Whole(21) }

DarkThresholds ==
  { Undefined, Whole(0), Norm(2126, 4), LUMINANCE_DARK_THRESHOLD, Norm(5, 1),
    Whole(1) }

DarkColors ==
  ContrastColors \cup HexStrings \cup OtherArrays
  \cup {Str(<<"#", "0", "0", "0">>), Str(<<"#", "f", "f", "f">>)}

FirstIsColorDark ==
  /\ calls = 0
  /\ \E color \in DarkColors, threshold \in DarkThresholds :
       UseIsColorDark(color, threshold)

FirstHasContrastOnLight ==
  /\ calls = 0
  /\ \E color \in ContrastColors, background \in HookBackgrounds,
        threshold \in ContrastThresholds :
       UseHasContrastOnLight(color, background, threshold)

FirstHasContrastOnDark ==
  /\ calls = 0
  /\ \E color \in ContrastColors, background \in HookBackgrounds,
        threshold \in ContrastThresholds :
       UseHasContrastOnDark(color, background, threshold)

NextHooks ==
  FirstIsColorDark \/ FirstHasContrastOnLight \/ FirstHasContrastOnDark

SpecHooks == Init /\ [][NextHooks]_vars

(***************************************************************************)
(* Properties                                                              *)
(***************************************************************************)
EncodingsOf == [t \in Triples |-> Encodings(t)]

\* C1: every encoding of a byte triple (r, g, b) - '#rrggbb' in either case,
\* '#rrggbbFF', 'rgb(r,g,b)' and 'rgba(r,g,b,1)' with or without spaces,
\* [r, g, b], [r, g, b, 1] and, for bytes of two equal hex digits, '#rgb' -
\* makes colorLuminance return the value it returns for the array [r, g, b].
C1_EquivalentEncodings ==
  last.op = "colorLuminance" =>
    \A t \in Triples :
      last.color \in EncodingsOf[t] =>
        /\ last.kind = "return"
        /\ last.value = ArrayLuminance(Bytes(t)).value

\* '#A2F' in upper case has returned a luminance.
C1_Witness ==
  /\ last.op = "colorLuminance"
  /\ last.color = Str(<<"#", "A", "2", "F">>)
  /\ last.kind = "return"
  /\ last.value.k = "num"

IsHex8(s) ==
  /\ Len(s) = 9
  /\ s[1] = "#"
  /\ \A i \in 2..9 : IsHexDigit(s[i])

AlphaByte(s) == 16 * HexValue(s[8]) + HexValue(s[9])

\* The numeric value of each alpha of AlphaTokens, as Number gives it.
AlphaNumber(alpha) ==
  IF alpha \in {<<"0">>, <<"0", ".">>} THEN Whole(0)
  ELSE IF alpha = <<".">> THEN NaN
  ELSE [k |-> "num", m |-> 4, e |-> 1]

\* C2: a '#' string of 8 hex digits whose last pair is not 255 raises
\* NeedsAlphaBlending with that alpha byte (0..254), and functional notation
\* whose alpha is present and is not '1' raises NeedsAlphaBlending with the
\* numeric value of the alpha; neither returns a value or stores an entry.
C2_TranslucentStringsRaise ==
  (last.op = "colorLuminance" /\ last.color.t = "str") =>
    /\ (IsHex8(last.color.s) /\ AlphaByte(last.color.s) # 255) =>
         /\ last.kind = "NeedsAlphaBlending"
         /\ last.alpha = Whole(AlphaByte(last.color.s))
         /\ last.alpha.m \in 0..254
         /\ last.literal = last.color.s
         /\ ~HasOwn(CACHE, last.color.s)
    /\ \A name \in {Rgb, Rgba}, alpha \in AlphaTokens, sep \in {<<>>, <<" ">>},
          c \in {<<DecStr(MaxByte), DecStr(MaxByte), DecStr(MaxByte)>>,
                 <<DecStr(300), DecStr(0), DecStr(0)>>} :
         last.color.s = Functional(name, c[1], c[2], c[3], alpha, sep) =>
           /\ last.kind = "NeedsAlphaBlending"
           /\ last.alpha = AlphaNumber(alpha)
           /\ last.literal = last.color.s
           /\ ~HasOwn(CACHE, last.color.s)

\* 'rgba(255, 255, 255, .4)' has raised NeedsAlphaBlending with alpha 0.4.
C2_Witness ==
  /\ last.op = "colorLuminance"
  /\ last.color = Str(<<"r", "g", "b", "a", "(", "2", "5", "5", ",", " ", "2", "5", "5", ",", " ", "2", "5", "5", ",", " ", ".", "4", ")">>)
  /\ last.kind = "NeedsAlphaBlending"
  /\ last.alpha = [k |-> "num", m |-> 4, e |-> 1]

InByteRange(x) == x.k = "num" => (x.m >= 0 /\ x.m <= MaxByte * Pow10(x.e))

\* C3 as stated: every array of length 4 whose 4th element is not 1 raises
\* NeedsAlphaBlending with that element as the alpha.
C3_AnyFourthElement ==
  (last.op = "colorLuminance" /\ last.color.t = "arr"
   /\ Len(last.color.a) = 4 /\ last.color.a[4] # Whole(1)) =>
    /\ last.kind = "NeedsAlphaBlending"
    /\ last.alpha = last.color.a[4]

\* C3, amended: every array of length 4 that has no element below 0 or
\* above 255 and whose 4th element is not 1 raises NeedsAlphaBlending with
\* that element as the alpha.
C3_FourthElementInRange ==
  (last.op = "colorLuminance" /\ last.color.t = "arr"
   /\ Len(last.color.a) = 4 /\ last.color.a[4] # Whole(1)
   /\ \A i \in 1..4 : InByteRange(last.color.a[i])) =>
    /\ last.kind = "NeedsAlphaBlending"
    /\ last.alpha = last.color.a[4]

\* [255, 255, 255, 0] has raised NeedsAlphaBlending with alpha 0.
C3_Witness ==
  /\ last.op = "colorLuminance"
  /\ last.color = Arr(<<Whole(MaxByte), Whole(MaxByte), Whole(MaxByte), Whole(0)>>)
  /\ last.kind = "NeedsAlphaBlending"
  /\ last.alpha = Whole(0)

HashLength(s) == Len(s) - 1

\* C4: a string that starts with '#' and has a number of characters other
\* than 3, 6 or 8 after it (none included) raises UnsupportedFormat, whatever
\* CACHE holds.
C4_WrongLengthRaises ==
  (last.op = "colorLuminance" /\ last.color.t = "str"
   /\ At(last.color.s, 1) = "#" /\ HashLength(last.color.s) \notin {3, 6, 8}) =>
    /\ last.kind = "UnsupportedFormat"
    /\ ~last.hit
    /\ ~HasOwn(CACHE, last.color.s)

\* '#ffff' has raised UnsupportedFormat in a second call, with an entry in
\* CACHE.
C4_Witness ==
  /\ calls = 2
  /\ CACHE # {}
  /\ last.op = "colorLuminance"
  /\ last.color = HexOfLength(4)
  /\ last.kind = "UnsupportedFormat"

\* C5: a '#' string with 3, 6 or 8 characters after the '#', one of which is
\* no hex digit, raises UnsupportedFormat: it returns no value and gets no
\* entry in CACHE.
C5_NonHexRaises ==
  (last.op = "colorLuminance" /\ last.color.t = "str"
   /\ At(last.color.s, 1) = "#" /\ HashLength(last.color.s) \in {3, 6, 8}
   /\ \E i \in 2..Len(last.color.s) : ~IsHexDigit(last.color.s[i])) =>
    /\ last.kind = "UnsupportedFormat"
    /\ ~HasOwn(CACHE, last.color.s)

\* s without its spaces is, from its first character to its last, functional
\* notation: rgb or rgba, three runs of digits and an optional alpha.
IsFunctional(s) ==
  LET t == RemoveSpaces(s)
  IN MatchAt(t, 1).ok /\ MatchAt(t, 1).end = Len(t)

\* ... and its alpha, if any, is '1'.
IsOpaqueFunctional(s) ==
  /\ IsFunctional(s)
  /\ MatchAt(RemoveSpaces(s), 1).has4 => MatchAt(RemoveSpaces(s), 1).g4 = <<"1">>

\* C6: for a string that does not start with '#', colorLuminance returns
\* only if the string without its spaces is in its entirety opaque functional
\* notation, and it raises UnsupportedFormat for every string that is not
\* functional notation from its first character to its last.
C6_OnlyWholeFunctional ==
  (last.op = "colorLuminance" /\ last.color.t = "str"
   /\ At(last.color.s, 1) # "#") =>
    /\ last.kind = "return" => IsOpaqueFunctional(last.color.s)
    /\ ~IsFunctional(last.color.s) => last.kind = "UnsupportedFormat"

\* C7: an UnsupportedFormat error carries the argument: the string as given,
\* or the array between brackets, its elements joined by ', '.
C7_CarriesTheLiteral ==
  (last.op = "colorLuminance" /\ last.kind = "UnsupportedFormat") =>
    /\ last.color.t = "str" => last.literal = last.color.s
    /\ last.color.t = "arr" => last.literal = Bracketed(last.color.a)

\* The linearized channel of a byte, the branch chosen by the byte: 0..10
\* linear, 11..255 the power.
ByteLinear(b) ==
  IF b <= 10 THEN (((b * Unit) \div 255) * 100) \div 1292
  ELSE Pow24(((((b * Unit) \div 255) + 550) * 1000) \div 1055)

ByteLuminance(r, g, b) ==
  Norm(2126 * ByteLinear(r) + 7152 * ByteLinear(g) + 722 * ByteLinear(b), 8)

\* An array of three bytes, or of three bytes and 1.
IsOpaqueArray(color) ==
  /\ color.t = "arr"
  /\ Len(color.a) \in {3, 4}
  /\ \A i \in 1..3 : color.a[i].k = "num" /\ color.a[i].e = 0
                     /\ color.a[i].m \in 0..MaxByte
  /\ Len(color.a) = 4 => color.a[4] = Whole(1)

IsOpaque(color) == color \in OpaqueColors \/ IsOpaqueArray(color)

\* C8: for an opaque colour of bytes (r, g, b) colorLuminance returns
\* 0.2126 f(r/255) + 0.7152 f(g/255) + 0.0722 f(b/255), f linear for the bytes
\* 0..10 and the power for 11..255; pure red, green and blue give exactly
\* 0.2126, 0.7152 and 0.0722.
C8_RelativeLuminance ==
  last.op = "colorLuminance" =>
    /\ IsOpaqueArray(last.color) =>
         /\ last.kind = "return"
         /\ last.value = ByteLuminance(last.color.a[1].m, last.color.a[2].m,
                                       last.color.a[3].m)
    /\ \A t \in Triples :
         last.color \in EncodingsOf[t] =>
           /\ last.kind = "return"
           /\ last.value = ByteLuminance(t[1], t[2], t[3])
    /\ last.color \in EncodingsOf[<<MaxByte, 0, 0>>] =>
         last.value = [k |-> "num", m |-> 2126, e |-> 4]
    /\ last.color \in EncodingsOf[<<0, MaxByte, 0>>] =>
         last.value = [k |-> "num", m |-> 7152, e |-> 4]
    /\ last.color \in EncodingsOf[<<0, 0, MaxByte>>] =>
         last.value = [k |-> "num", m |-> 722, e |-> 4]

\* 'rgb(11, 10, 255)' has returned: one channel on each side of the switch.
C8_Witness ==
  /\ last.op = "colorLuminance"
  /\ last.color = Str(<<"r", "g", "b", "(", "1", "1", ",", " ", "1", "0", ",", " ", "2", "5", "5", ")">>)
  /\ last.kind = "return"
  /\ last.value = ByteLuminance(11, 10, MaxByte)

\* C9: the luminance of an opaque colour lies in [0, 1], black gives 0 and
\* white 1, and a step up in one channel never lowers it.
C9_RangeAndMonotonic ==
  /\ (last.op = "colorLuminance" /\ IsOpaque(last.color)) =>
       /\ last.kind = "return"
       /\ last.value.k = "num"
       /\ Fix(last.value, 8) >= 0
       /\ Fix(last.value, 8) <= Pow10(8)
  /\ (last.op = "colorLuminance" /\ last.color \in EncodingsOf[<<0, 0, 0>>]) =>
       last.value = Whole(0)
  /\ (last.op = "colorLuminance"
      /\ last.color \in EncodingsOf[<<MaxByte, MaxByte, MaxByte>>]) =>
       last.value = Whole(1)
  /\ (last.op = "contrast" /\ <<last.color, last.background>> \in ChannelSteps) =>
       /\ last.kind = "return"
       /\ Fix(last.la, 8) <= Fix(last.lb, 8)

\* The step from [10, 0, 0] to [11, 0, 0], across the switch, has raised the
\* luminance.
C9_Witness ==
  /\ last.op = "contrast"
  /\ last.color = Arr(<<Whole(10), Whole(0), Whole(0)>>)
  /\ last.background = Arr(<<Whole(11), Whole(0), Whole(0)>>)
  /\ Fix(last.la, 8) < Fix(last.lb, 8)

\* An array the type OpaqueColor describes: three numbers from 0 to 255,
\* whole or not, and an optional fourth element 1.
IsValidArray(color) ==
  /\ color.t = "arr"
  /\ Len(color.a) \in {3, 4}
  /\ \A i \in 1..3 : /\ color.a[i].k = "num"
                     /\ ~LtInt(color.a[i], 0)
                     /\ ~GtInt(color.a[i], MaxByte)
  /\ Len(color.a) = 4 => color.a[4] = Whole(1)

IsValidOpaque(color) == color \in OpaqueColors \/ IsValidArray(color)

Larger(x, y) == IF x >= y THEN x ELSE y

Smaller(x, y) == IF x <= y THEN x ELSE y

\* C10: for two opaque colours of luminances la and lb contrast returns
\* (l1 + 0.05) / (l2 + 0.05) with l1 the numerically larger and l2 the
\* numerically smaller of la and lb.
C10_LargerOverSmaller ==
  (last.op = "contrast" /\ IsValidOpaque(last.color)
   /\ IsValidOpaque(last.background)) =>
    /\ last.kind = "return"
    /\ last.value =
         Norm(((Larger(Fix(last.la, 8), Fix(last.lb, 8)) + 5000000) * 10)
              \div ((Smaller(Fix(last.la, 8), Fix(last.lb, 8)) + 5000000) \div 100),
              3)

\* contrast of white on [0, 0, 1]: the first luminance, 1, is the larger
\* number and the shorter string.
C10_Witness ==
  /\ last.op = "contrast"
  /\ last.color = Arr(<<Whole(MaxByte), Whole(MaxByte), Whole(MaxByte)>>)
  /\ last.background = Arr(<<Whole(0), Whole(0), Whole(1)>>)
  /\ last.kind = "return"
  /\ Fix(last.la, 8) > Fix(last.lb, 8)
  /\ Len(NumberToString(last.la)) < Len(NumberToString(last.lb))

White == {Arr(Bytes(<<MaxByte, MaxByte, MaxByte>>)),
          Str(Hex6(<<MaxByte, MaxByte, MaxByte>>, FALSE))}

Black == {Arr(Bytes(<<0, 0, 0>>)), Str(Hex6(<<0, 0, 0>>, FALSE))}

\* C11: for opaque colours A and B, contrast(A, B) is the value of
\* contrast(B, A), lies between 1 and 21, is 1 when A and B are the same
\* colour, and is 21 for white on black.
C11_SymmetricAndBounded ==
  (last.op = "contrast" /\ IsValidOpaque(last.color)
   /\ IsValidOpaque(last.background)) =>
    /\ last.kind = "return"
    /\ last.value = contrast(last.background, last.color, {}).out.value
    /\ last.value.k = "num"
    /\ Fix(last.value, 3) >= 1000
    /\ Fix(last.value, 3) <= 21000
    /\ last.color = last.background => last.value = Whole(1)
    /\ (last.color \in White /\ last.background \in Black) =>
         last.value = Whole(21)

\* contrast('#ffffff', '#000000') has returned 21.
C11_Witness ==
  /\ last.op = "contrast"
  /\ last.color = Str(Hex6(<<MaxByte, MaxByte, MaxByte>>, FALSE))
  /\ last.background = Str(Hex6(<<0, 0, 0>>, FALSE))
  /\ last.kind = "return"
  /\ last.value = Whole(21)

\* 0.299 R + 0.587 G + 0.114 B over the bytes of t divided by 255.
PerceivedLuminance(t) ==
  Norm(299 * (((t[1] * Unit) \div 255) * 100)
       + 587 * (((t[2] * Unit) \div 255) * 100)
       + 114 * (((t[3] * Unit) \div 255) * 100), 9)

\* C12: colorLuminance(color, perceived) returns, for every encoding of a
\* byte triple, 0.299 R + 0.587 G + 0.114 B when perceived is selected and
\* the relative (gamma-corrected) luminance when it is not.
C12_PerceivedMode ==
  last.op = "colorLuminance_part001" =>
    \A t \in Triples :
      last.color \in EncodingsOf[t] =>
        /\ last.kind = "return"
        /\ last.flag => last.value = PerceivedLuminance(t)
        /\ ~last.flag => last.value = ArrayLuminance(Bytes(t)).value

\* The background and the threshold a contrast hook works with.
BackgroundUsed ==
  IF last.background # NoColor THEN last.background
  ELSE IF last.op = "useHasContrastOnLight"
    THEN Str(<<"#", "f", "f", "f", "f", "f", "f">>)
    ELSE Str(<<"#", "0", "0", "0", "0", "0", "0">>)

ContrastThresholdUsed ==
  IF last.threshold = Undefined THEN Norm(45, 1) ELSE last.threshold

C14_StrictlyBelowThreshold ==
  (last.op = "useIsColorDark" /\ last.kind = "return") =>
    /\ colorLuminance(last.color, TRUE, {}).out.kind = "return"
    /\ last.value.k = "bool"
    /\ last.value = Bool(TRUE) <=>
         /\ colorLuminance(last.color, TRUE, {}).out.value.k = "num"
         /\ Fix(colorLuminance(last.color, TRUE, {}).out.value, 8)
              < Fix(IF last.threshold = Undefined THEN Norm(35, 2)
                    ELSE last.threshold, 8)
    /\ last.threshold = Undefined =>
         /\ last.color \in Black \cup {Str(<<"#", "0", "0", "0">>)} =>
              last.value = Bool(TRUE)
         /\ last.color \in White \cup {Str(<<"#", "f", "f", "f">>)} =>
              last.value = Bool(FALSE)

\* useIsColorDark([255, 0, 0], 0.2126): the luminance of red equals the
\* threshold and the hook has returned false.
C14_Witness ==
  /\ last.op = "useIsColorDark"
  /\ last.color = Arr(Bytes(<<MaxByte, 0, 0>>))
  /\ last.threshold = Norm(2126, 4)
  /\ last.value = Bool(FALSE)

\* The entry en is what a returning call colorLuminance(color) with result
\* value stores: the string itself as the key, value as the value.
StoredBy(en, color, value) ==
  color.t = "str" /\ en.key = color.s /\ en.value = value

\* C15 as stated, with contrast counted as one call: CACHE changes only in
\* a call that returns, by the entry of a string argument, a call that
\* throws leaves CACHE as it is, and no entry is removed or changed.
C15_ThrowingCallsLeaveCache ==
  [][ /\ \A en \in CACHE' \ CACHE :
           /\ last'.kind = "return"
           /\ \/ StoredBy(en, last'.color, IF last'.op = "contrast"
                                              THEN last'.la ELSE last'.value)
              \/ StoredBy(en, last'.background, last'.lb)
      /\ last'.kind \in {"UnsupportedFormat", "NeedsAlphaBlending"} =>
           CACHE' = CACHE
      /\ \A en \in CACHE : en \in CACHE' ]_vars

\* C15, amended: CACHE changes only by entries that a returning colorLuminance call
\* on a string s (made directly, or by contrast for one of its arguments)
\* sets for exactly s to the luminance returned; a call that throws and a
\* call on an array leave CACHE as it is; an entry is never removed and
\* never changes its value.
C15_CacheWrites ==
  [][ /\ \A en \in CACHE' \ CACHE :
           \/ /\ last'.op = "colorLuminance"
              /\ last'.kind = "return"
              /\ StoredBy(en, last'.color, last'.value)
           \/ /\ last'.op = "contrast"
              /\ \/ /\ colorLuminance(last'.color, TRUE, CACHE).out.kind
                         = "return"
                    /\ StoredBy(en, last'.color, last'.la)
                 \/ /\ last'.kind = "return"
                    /\ StoredBy(en, last'.background, last'.lb)
      /\ (last'.op = "colorLuminance"
          /\ (last'.kind # "return" \/ last'.color.t = "arr")) =>
           CACHE' = CACHE
      /\ (last'.op = "contrast" /\ last'.color.t = "arr"
          /\ last'.background.t = "arr") => CACHE' = CACHE
      /\ \A en \in CACHE : en \in CACHE' ]_vars

\* After 'rgb(255, 255, 255)' was stored with its spaces, a second call
\* threw and the entry is still there.
C15_Witness ==
  /\ calls = 2
  /\ last.kind \in {"UnsupportedFormat", "NeedsAlphaBlending"}
  /\ \E en \in CACHE :
       /\ en.key = <<"r", "g", "b", "(", "2", "5", "5", ",", " ", "2", "5", "5", ",", " ", "2", "5", "5", ")">>
       /\ en.value = Whole(1)

\* C16: once colorLuminance(s) has returned for an accepted string s (CACHE
\* has an entry for s), a later colorLuminance(s) with the cache enabled is
\* answered by the cache branch.
C16_AnsweredFromCache ==
  [][ ( /\ last'.op = "colorLuminance"
        /\ last'.flag
        /\ last'.color \in OpaqueColors
        /\ last'.color.t = "str"
        /\ HasOwn(CACHE, last'.color.s) ) => last'.hit ]_vars

\* C17: the outcome of colorLuminance(color, cache) is its outcome with an
\* empty CACHE and the cache flag off, and the outcome of
\* contrast(color, background) is its outcome with an empty CACHE, whatever
\* calls were made before.
C17_ReferentiallyTransparent ==
  /\ last.op = "colorLuminance" =>
       /\ last.kind = colorLuminance(last.color, FALSE, {}).out.kind
       /\ last.value = colorLuminance(last.color, FALSE, {}).out.value
  /\ last.op = "contrast" =>
       /\ last.kind = contrast(last.color, last.background, {}).out.kind
       /\ last.value = contrast(last.color, last.background, {}).out.value

\* C18: the cache branch answers colorLuminance(s) only when CACHE has an
\* entry of its own under s, stored by an earlier call, and what it returns
\* is a number.
C18_OnlyStoredEntries ==
  (last.op = "colorLuminance" /\ last.hit) =>
    /\ calls > 1
    /\ HasOwn(CACHE, last.color.s)
    /\ last.value.k = "num"

====
